---- MODULE Spec2Model ----
(***************************************************************************)
(* The /predict handler of src/main.py: the query parameters, the prompt,  *)
(* the generation call, the draining of its fragment stream, and the       *)
(* split / filter / join steps that trim the generated text to whole       *)
(* sentences.                                                              *)
(*                                                                         *)
(* Spec        the trimming of every generated text of up to MaxLen        *)
(*             characters, for a request without query parameters.         *)
(* SpecRequest one request from its query string to its reply or error,    *)
(*             with short generated texts.                                 *)
(* SpecConc    several requests in flight at once.                         *)
(*                                                                         *)
(* A text is a sequence of one-character strings.                          *)
(***************************************************************************)
EXTENDS Integers, Sequences, FiniteSets, TLC

\* Longest text the generation service emits in the model.
MaxLen == 4

\* Largest number of fragments the generation service emits in the model.
MaxFrags == 3

\* Characters of generated text: a letter, two terminators, a space and a
\* newline (a whitespace character that is not a space).
Alphabet == {"a", ".", "?", " ", "\n"}

\* Whitespace in the sense of the specification (any whitespace character).
Whitespace == {" ", "\n", "\t"}

Texts == UNION {[1..n -> Alphabet] : n \in 0..MaxLen}

\* Longest generated text of SpecRequest.
MaxShortLen == 2

\* Characters of the short generated texts: a terminator and a space.
ShortAlphabet == {".", " "}

ShortTexts == UNION {[1..n -> ShortAlphabet] : n \in 0..MaxShortLen}

\* Longest value of a query parameter.
MaxArgLen == 1

\* Characters of query parameter values: a letter and a newline.
ArgAlphabet == {"a", "\n"}

ArgTexts == UNION {[1..n -> ArgAlphabet] : n \in 0..MaxArgLen}

\* The query parameters predict reads.
Keys == {"input", "instruction", "model"}

\* The values of the model parameter: the empty string and an identifier.
ModelIds == {<<>>, <<"m">>}

\* request.args: each parameter is absent or has a value.
Queries ==
    {q \in UNION {[D -> ArgTexts \cup ModelIds] : D \in SUBSET Keys} :
        /\ "model" \in DOMAIN q => q["model"] \in ModelIds
        /\ \A k \in DOMAIN q \ {"model"} : q[k] \in ArgTexts}

\* The process environment: the credential is absent or present.
Environs == {<<>>, [k \in {"replicate_api"} |-> <<"t">>]}

\* Largest number of requests the server accepts in SpecServer.
MaxRequests == 2

\* The field names of the dictionaries given to Schema.validate.
FieldNames == {"a", "b"}

\* Largest integer a validator writes as a fixed value or appends to a list.
MaxFix == 1

\* The GuardLogs objects of SpecGuard.
Logs == {1, 2}

\* Largest number of pushes, on a GuardHistory or a GuardState, in SpecGuard.
MaxPushes == 4

\* A fragment that is not a string (a stream may yield any object).
NonString == <<"<object>">>

\* The requests in flight in SpecConc.
Requests == {1, 2}

\* Longest generated text of SpecConc.
MaxConcLen == 2

\* Characters of the generated texts of SpecConc.
ConcAlphabet == {"a", ".", " "}

ConcTexts == UNION {[1..n -> ConcAlphabet] : n \in 0..MaxConcLen}

\* The query strings of SpecConc: no parameter, or an input.
ConcQueries == {q \in Queries : DOMAIN q \subseteq {"input"} /\ \A k \in DOMAIN q : q[k] = <<"a">>}

VARIABLES
    pc, raw, rest, output, sentences, final_response, reply,
    query, user_text, instruction, model, prompt, calls, error,
    threads, locals,
    environ, rep_client, app, routes, proc, served, previous,
    gpc, fn_result, call_result,
    schema, data, dicts, lists, snapshot, validated_response, todo, vresult,
    glogs, ghist, gstate, gop

\* The position in predict, the stream of the generation call (raw is the
\* text it streams, rest what it has not yielded yet), the trimmer's locals
\* and the reply.
trimVars == <<pc, raw, rest, output, sentences, final_response, reply>>

\* os.environ, the module-level names rep_client and app, the routes of
\* app, the position in the module-level code, the number of requests
\* accepted, and the outcome of the request before the current one.
srvVars == <<environ, rep_client, app, routes, proc, served, previous>>

\* The guardrails library of the environment: the position in the operation
\* under way; what the callable wrapped by a PromptCallable did and what the
\* call of the PromptCallable gave; for Schema.validate the fields of the
\* schema, the argument, the heap of dictionaries and of lists, the heap as
\* the caller left it, the local validated_response, the items left to
\* visit and the outcome; for the logs the heap of GuardLogs, GuardHistory
\* and GuardState objects and the last push.
guardVars == <<gpc, fn_result, call_result,
               schema, data, dicts, lists, snapshot, validated_response, todo, vresult,
               glogs, ghist, gstate, gop>>

\* request.args, the locals read from it, the prompt, the calls made to the
\* generation service and the exception raised, if any.
reqVars == <<query, user_text, instruction, model, prompt, calls, error>>

\* The requests in flight at once: per request its position, stream, call
\* and reply; per frame of predict its locals.
concVars == <<threads, locals>>

vars == <<pc, raw, rest, output, sentences, final_response, reply,
          query, user_text, instruction, model, prompt, calls, error,
          threads, locals, srvVars, guardVars>>

----------------------------------------------------------------------------
(* The regular expressions and string operations of predict.               *)

\* The character class [.!?] of both patterns.
IsTerminator(c) == c \in {".", "!", "?"}

\* The pattern " +" without its lookbehind: any space matches.
MatchAtAnySpace(text, i) == text[i] = " "

\* The pattern "(?<=[.!?]) +" matches at position i of text: a space that
\* is preceded by a terminator.
MatchAt(text, i) ==
    /\ i > 1
    /\ text[i] = " "
    /\ IsTerminator(text[i - 1])

\* A non-greedy " ": one space is consumed whatever follows.
SpaceRunEndOne(text, i) == i + 1

\* " +" is greedy: the position just after the run of spaces starting at i.
RECURSIVE SpaceRunEnd(_, _)
SpaceRunEnd(text, i) ==
    IF i <= Len(text) /\ text[i] = " "
    THEN SpaceRunEnd(text, i + 1)
    ELSE i

\* The pattern "[.!?] +" in place of "(?<=[.!?]) +": the terminator is part
\* of the separator and is cut off the piece before it.
RECURSIVE ReSplitFromConsuming(_, _, _, _)
ReSplitFromConsuming(text, i, start, acc) ==
    IF i > Len(text)
    THEN Append(acc, SubSeq(text, start, Len(text)))
    ELSE IF MatchAt(text, i)
         THEN ReSplitFromConsuming(text, SpaceRunEnd(text, i), SpaceRunEnd(text, i),
                                   Append(acc, SubSeq(text, start, i - 2)))
         ELSE ReSplitFromConsuming(text, i + 1, start, acc)

\* re.split scans left to right; start is where the current piece began.
RECURSIVE ReSplitFrom(_, _, _, _)
ReSplitFrom(text, i, start, acc) ==
    IF i > Len(text)
    THEN Append(acc, SubSeq(text, start, Len(text)))
    ELSE IF MatchAt(text, i)
         THEN ReSplitFrom(text, SpaceRunEnd(text, i), SpaceRunEnd(text, i),
                          Append(acc, SubSeq(text, start, i - 1)))
         ELSE ReSplitFrom(text, i + 1, start, acc)

\* re.split with maxsplit=1: the text is cut at its first match only.
ReSplitOnce(text) ==
    IF \E i \in DOMAIN text : MatchAt(text, i)
    THEN LET i == CHOOSE m \in DOMAIN text :
                      /\ MatchAt(text, m)
                      /\ \A n \in 1..(m - 1) : ~MatchAt(text, n)
         IN  <<SubSeq(text, 1, i - 1), SubSeq(text, SpaceRunEnd(text, i), Len(text))>>
    ELSE <<text>>

\* Every piece of the split with its leading spaces stripped.
ReSplitStripped(text) ==
    LET cs == ReSplitFrom(text, 1, 1, <<>>)
    IN  [k \in DOMAIN cs |-> SubSeq(cs[k], SpaceRunEnd(cs[k], 1), Len(cs[k]))]

\* re.split("(?<=[.!?]) +", text)
ReSplit(text) == ReSplitFrom(text, 1, 1, <<>>)

\* The pattern "[.]$" in place of "[.!?]$".
ReSearchPeriod(s) ==
    \/ Len(s) >= 1 /\ s[Len(s)] = "."
    \/ Len(s) >= 2 /\ s[Len(s)] = "\n" /\ s[Len(s) - 1] = "."

\* A filter that keeps every non-empty candidate.
ReSearchAny(s) == Len(s) >= 1

\* A filter that also keeps the empty candidate.
ReSearchOrEmpty(s) ==
    \/ Len(s) = 0
    \/ IsTerminator(s[Len(s)])
    \/ Len(s) >= 2 /\ s[Len(s)] = "\n" /\ IsTerminator(s[Len(s) - 1])

\* re.search("[.!?]$", s): without re.MULTILINE, $ matches at the end of the
\* string and also just before a newline that ends the string.
ReSearch(s) ==
    \/ Len(s) >= 1 /\ IsTerminator(s[Len(s)])
    \/ Len(s) >= 2 /\ s[Len(s)] = "\n" /\ IsTerminator(s[Len(s) - 1])

\* A join that writes the separator after every element, the last included.
RECURSIVE StrJoinTrailing(_, _)
StrJoinTrailing(sep, list) ==
    IF list = <<>> THEN <<>>
    ELSE list[1] \o sep \o StrJoinTrailing(sep, Tail(list))

\* A join that writes the separator twice between neighbours.
RECURSIVE StrJoinDoubled(_, _)
StrJoinDoubled(sep, list) ==
    IF list = <<>> THEN <<>>
    ELSE IF Len(list) = 1 THEN list[1]
    ELSE list[1] \o sep \o sep \o StrJoinDoubled(sep, Tail(list))

\* sep.join(list)
RECURSIVE StrJoin(_, _)
StrJoin(sep, list) ==
    IF list = <<>> THEN <<>>
    ELSE IF Len(list) = 1 THEN list[1]
    ELSE list[1] \o sep \o StrJoin(sep, Tail(list))

\* output.insert(0, text) in place of output.append(text)
ListPrepend(list, text) == <<text>> \o list

\* output.append(text)
ListAppend(list, text) == Append(list, text)

\* request.args.get(key): an absent parameter reads as None, not as default.
ArgsGetNone(args, key, default) ==
    IF key \in DOMAIN args THEN args[key] ELSE <<"N", "o", "n", "e">>

\* request.args.get(key, default)
ArgsGet(args, key, default) == IF key \in DOMAIN args THEN args[key] ELSE default

\* The literals of the prompt template.
LitInstruction == <<"i", "n", "s", "t", "r", "u", "c", "t", "i", "o", "n", ":", " ">>

LitInput == <<"\n", "i", "n", "p", "u", "t", ":", " ">>

LitOutput == <<"\n", "o", "u", "t", "p", "u", "t", ":">>

\* The template with its two fields exchanged.
ComposePromptSwapped(instr, text) ==
    LitInstruction \o text \o LitInput \o instr \o LitOutput

\* 'instruction: ' + instruction + '\ninput: ' + user_text + '\noutput:'
ComposePrompt(instr, text) == LitInstruction \o instr \o LitInput \o text \o LitOutput

\* A maximum length that grows with the prompt the request supplies.
RunInputByPrompt(p) == [prompt |-> p, max_length |-> 100 + Len(p)]

\* input={"prompt": prompt, "max_length": 100}
RunInput(p) == [prompt |-> p, max_length |-> 100]

\* The arguments of rep_client.run(model, input=...)
RunCall(m, p) == [model |-> m, input |-> RunInput(p)]

\* A concatenation that also raises for an empty list.
JoinRaisesOnEmpty(list) == list = <<>> \/ \E k \in DOMAIN list : list[k] = NonString

\* A concatenation that never raises: a non-string item is written as text.
JoinNeverRaises(list) == FALSE

\* ''.join(output) raises TypeError when an item is not a string.
JoinRaises(list) == \E k \in DOMAIN list : list[k] = NonString

\* A reply that also echoes the text under a second key.
ReplyWithEcho(final) == [status |-> 200, json |-> [response |-> final, text |-> final]]

\* jsonify({'response': final_response}): a 200 reply with a JSON object.
ReplyOf(final) == [status |-> 200, json |-> [response |-> final]]

\* No reply has been produced.
NoReply == [status |-> 0, json |-> <<>>]

\* Lines 22-34 as a function of the fragment list.
Predict(fragments) ==
    StrJoin(<<" ">>, SelectSeq(ReSplit(StrJoin(<<>>, fragments)), ReSearch))

----------------------------------------------------------------------------
(* The handler, one action per step.                                       *)

\* No request is in flight in SpecConc.
IdleThreads ==
    [r \in Requests |->
        [pc |-> "args", query |-> <<>>, raw |-> <<>>, rest |-> <<>>,
         calls |-> <<>>, reply |-> NoReply]]

\* The locals of predict before its first assignment.
FreshLocals ==
    [f \in Requests |->
        [user_text |-> <<>>, instruction |-> <<>>, model |-> <<>>, prompt |-> <<>>,
         output |-> <<>>, sentences |-> <<>>, final_response |-> <<>>]]

\* The name rep_client before line 6 has run.
NoClient == [bound |-> FALSE, api_token |-> <<>>]

\* replicate.Client(api_token=token)
Client(token) == [bound |-> TRUE, api_token |-> token]

\* No request has been handled before the current one.
NoPrevious == [raw |-> <<>>, error |-> "none", reply |-> NoReply]

\* No operation of the guardrails library is under way.
GuardIdle ==
    /\ gpc = "idle"
    /\ fn_result = [kind |-> "none", v |-> 0]
    /\ call_result = [kind |-> "none", type |-> "none", v |-> 0]
    /\ schema = {}
    /\ data = [kind |-> "unset", ref |-> 0]
    /\ dicts = <<>>
    /\ lists = <<>>
    /\ snapshot = [dicts |-> <<>>, lists |-> <<>>]
    /\ validated_response = 0
    /\ todo = <<>>
    /\ vresult = [kind |-> "pending", ref |-> 0]
    /\ glogs = <<>>
    /\ ghist = <<>>
    /\ gstate = <<>>
    /\ gop = [op |-> "none", recv |-> 0, arg |-> 0, ret |-> 0]

\* The module has been imported with the credential set, the server is
\* running and the request at hand is its first.
ServerUp ==
    /\ environ = [k \in {"replicate_api"} |-> <<"t">>]
    /\ rep_client = Client(<<"t">>)
    /\ app = "Flask"
    /\ routes = {"/predict"}
    /\ proc = "serving"
    /\ served = 1
    /\ previous = NoPrevious
    /\ GuardIdle

\* A request without query parameters has been read and its prompt composed.
Init ==
    /\ pc = "run"
    /\ raw = <<>>
    /\ rest = <<>>
    /\ output = <<>>
    /\ sentences = <<>>
    /\ final_response = <<>>
    /\ reply = NoReply
    /\ query = <<>>
    /\ user_text = <<>>
    /\ instruction = <<>>
    /\ model = <<>>
    /\ prompt = ComposePrompt(<<>>, <<>>)
    /\ calls = <<>>
    /\ error = "none"
    /\ threads = IdleThreads
    /\ locals = FreshLocals
    /\ ServerUp

\* A request has arrived and predict is about to read its parameters.
InitRequest ==
    /\ pc = "args"
    /\ raw = <<>>
    /\ rest = <<>>
    /\ output = <<>>
    /\ sentences = <<>>
    /\ final_response = <<>>
    /\ reply = NoReply
    /\ query = <<>>
    /\ user_text = <<>>
    /\ instruction = <<>>
    /\ model = <<>>
    /\ prompt = <<>>
    /\ calls = <<>>
    /\ error = "none"
    /\ threads = IdleThreads
    /\ locals = FreshLocals
    /\ ServerUp

\* Lines 12-16: the three parameters are read, absent ones as '', and the
\* prompt is composed.
ReceiveFrom(Q) ==
    /\ pc = "args"
    /\ \E q \in Q :
        /\ query' = q
        /\ user_text' = ArgsGet(q, "input", <<>>)
        /\ instruction' = ArgsGet(q, "instruction", <<>>)
        /\ model' = ArgsGet(q, "model", <<>>)
    /\ prompt' = ComposePrompt(instruction', user_text')
    /\ pc' = "run"
    /\ UNCHANGED <<raw, rest, output, sentences, final_response, reply, calls, error>>
    /\ UNCHANGED concVars
    /\ UNCHANGED <<srvVars, guardVars>>

Receive == ReceiveFrom(Queries)

\* rep_client.run(...) returns: the service decides on the text, one of T,
\* that it will stream.
RunOn(T) ==
    /\ pc = "run"
    /\ calls' = Append(calls, RunCall(model, prompt))
    /\ \E r \in T :
        /\ raw' = r
        /\ rest' = r
    /\ output' = <<>>
    /\ pc' = "iter"
    /\ UNCHANGED <<sentences, final_response, reply>>
    /\ UNCHANGED <<query, user_text, instruction, model, prompt, error>>
    /\ UNCHANGED concVars
    /\ UNCHANGED <<srvVars, guardVars>>

Run == RunOn(Texts)

RunShort == RunOn(ShortTexts)

\* rep_client.run(...) raises and the call is issued again.
RunFailsRetry ==
    /\ pc = "run"
    /\ calls' = Append(calls, RunCall(model, prompt))
    /\ UNCHANGED <<pc, raw, rest, output, sentences, final_response, reply>>
    /\ UNCHANGED <<query, user_text, instruction, model, prompt, error>>
    /\ UNCHANGED concVars
    /\ UNCHANGED <<srvVars, guardVars>>

\* rep_client.run(...) raises: nothing catches it.
RunFails ==
    /\ pc = "run"
    /\ calls' = Append(calls, RunCall(model, prompt))
    /\ error' = "ReplicateError"
    /\ pc' = "error"
    /\ UNCHANGED <<raw, rest, output, sentences, final_response, reply>>
    /\ UNCHANGED <<query, user_text, instruction, model, prompt>>
    /\ UNCHANGED concVars
    /\ UNCHANGED <<srvVars, guardVars>>

\* One pass of the for loop: the stream yields the next fragment, the first
\* k characters of what it has not emitted yet (possibly none).
Iterate ==
    /\ pc = "iter"
    /\ Len(output) < MaxFrags
    /\ \E k \in 0..Len(rest) :
        /\ k = Len(rest) \/ Len(output) + 1 < MaxFrags
        /\ output' = ListAppend(output, SubSeq(rest, 1, k))
        /\ rest' = SubSeq(rest, k + 1, Len(rest))
    /\ UNCHANGED <<pc, raw, sentences, final_response, reply>>
    /\ UNCHANGED reqVars
    /\ UNCHANGED concVars
    /\ UNCHANGED <<srvVars, guardVars>>

\* One pass of the for loop in which the stream yields an object that is
\* not a string; it is appended like any other.  A stream of the model
\* yields at most one such object.
IterateNonString ==
    /\ pc = "iter"
    /\ Len(output) < MaxFrags
    /\ \A k \in DOMAIN output : output[k] # NonString
    /\ rest = <<>> \/ Len(output) + 1 < MaxFrags
    /\ output' = ListAppend(output, NonString)
    /\ UNCHANGED <<pc, raw, rest, sentences, final_response, reply>>
    /\ UNCHANGED reqVars
    /\ UNCHANGED concVars
    /\ UNCHANGED <<srvVars, guardVars>>

\* The stream raises while it is iterated and the loop is left with the
\* fragments read so far.
IterateFailsPartial ==
    /\ pc = "iter"
    /\ error' = "ReplicateError"
    /\ pc' = "split"
    /\ UNCHANGED <<raw, rest, output, sentences, final_response, reply>>
    /\ UNCHANGED <<query, user_text, instruction, model, prompt, calls>>
    /\ UNCHANGED concVars
    /\ UNCHANGED <<srvVars, guardVars>>

\* The stream raises while it is iterated: nothing catches it.
IterateFails ==
    /\ pc = "iter"
    /\ error' = "ReplicateError"
    /\ pc' = "error"
    /\ UNCHANGED <<raw, rest, output, sentences, final_response, reply>>
    /\ UNCHANGED <<query, user_text, instruction, model, prompt, calls>>
    /\ UNCHANGED concVars
    /\ UNCHANGED <<srvVars, guardVars>>

\* The for loop is left (a break) while the stream may have more to yield.
EndOfStreamEarly ==
    /\ pc = "iter"
    /\ pc' = "split"
    /\ UNCHANGED <<raw, rest, output, sentences, final_response, reply>>
    /\ UNCHANGED reqVars
    /\ UNCHANGED concVars
    /\ UNCHANGED <<srvVars, guardVars>>

\* The stream is exhausted and the for loop ends.
EndOfStream ==
    /\ pc = "iter"
    /\ rest = <<>>
    /\ pc' = "split"
    /\ UNCHANGED <<raw, rest, output, sentences, final_response, reply>>
    /\ UNCHANGED reqVars
    /\ UNCHANGED concVars
    /\ UNCHANGED <<srvVars, guardVars>>

\* sentences = re.split("(?<=[.!?]) +", ''.join(output))
Split ==
    /\ pc = "split"
    /\ ~JoinRaises(output)
    /\ sentences' = ReSplit(StrJoin(<<>>, output))
    /\ pc' = "filter"
    /\ UNCHANGED <<raw, rest, output, final_response, reply>>
    /\ UNCHANGED reqVars
    /\ UNCHANGED concVars
    /\ UNCHANGED <<srvVars, guardVars>>

\* ''.join(output) raises TypeError: nothing catches it.
SplitRaises ==
    /\ pc = "split"
    /\ JoinRaises(output)
    /\ error' = "TypeError"
    /\ pc' = "error"
    /\ UNCHANGED <<raw, rest, output, sentences, final_response, reply>>
    /\ UNCHANGED <<query, user_text, instruction, model, prompt, calls>>
    /\ UNCHANGED concVars
    /\ UNCHANGED <<srvVars, guardVars>>

\* sentences = [s for s in sentences if re.search("[.!?]$", s)]
Filter ==
    /\ pc = "filter"
    /\ sentences' = SelectSeq(sentences, ReSearch)
    /\ pc' = "join"
    /\ UNCHANGED <<raw, rest, output, final_response, reply>>
    /\ UNCHANGED reqVars
    /\ UNCHANGED concVars
    /\ UNCHANGED <<srvVars, guardVars>>

\* final_response = ' '.join(sentences)
Join ==
    /\ pc = "join"
    /\ final_response' = StrJoin(<<" ">>, sentences)
    /\ pc' = "return"
    /\ UNCHANGED <<raw, rest, output, sentences, reply>>
    /\ UNCHANGED reqVars
    /\ UNCHANGED concVars
    /\ UNCHANGED <<srvVars, guardVars>>

\* return jsonify({'response': final_response})
Return ==
    /\ pc = "return"
    /\ reply' = ReplyOf(final_response)
    /\ pc' = "done"
    /\ UNCHANGED <<raw, rest, output, sentences, final_response>>
    /\ UNCHANGED reqVars
    /\ UNCHANGED concVars
    /\ UNCHANGED <<srvVars, guardVars>>

Next ==
    \/ Run
    \/ Iterate
    \/ EndOfStream
    \/ Split
    \/ Filter
    \/ Join
    \/ Return

Spec == Init /\ [][Next]_vars

NextRequest ==
    \/ Receive
    \/ RunShort
    \/ RunFails
    \/ Iterate
    \/ IterateNonString
    \/ IterateFails
    \/ EndOfStream
    \/ Split
    \/ SplitRaises
    \/ Filter
    \/ Join
    \/ Return

SpecRequest == InitRequest /\ [][NextRequest]_vars

\* predict is straight-line code on one thread: once the stream has ended,
\* each of its remaining steps is eventually taken.
FairRequest ==
    /\ InitRequest
    /\ [][NextRequest]_vars
    /\ WF_vars(Split \/ SplitRaises \/ Filter \/ Join \/ Return)


----------------------------------------------------------------------------
(* Several requests in flight: each runs predict on its own thread, with    *)
(* its own frame of locals; the generation service streams one character    *)
(* per fragment.                                                            *)

\* All requests run in one frame, as if predict's locals were module globals.
SharedFrame(r) == 1

\* The frame that holds the locals of request r's call of predict.
Frame(r) == r

InitConc ==
    /\ Init

\* Lines 12-16 for request r.
CReceive(r) ==
    /\ threads[r].pc = "args"
    /\ \E q \in ConcQueries :
        /\ threads' = [threads EXCEPT ![r].pc = "run", ![r].query = q]
        /\ locals' = [locals EXCEPT
                        ![Frame(r)].user_text = ArgsGet(q, "input", <<>>),
                        ![Frame(r)].instruction = ArgsGet(q, "instruction", <<>>),
                        ![Frame(r)].model = ArgsGet(q, "model", <<>>),
                        ![Frame(r)].prompt = ComposePrompt(ArgsGet(q, "instruction", <<>>),
                                                           ArgsGet(q, "input", <<>>))]
    /\ UNCHANGED <<trimVars, reqVars>>
    /\ UNCHANGED <<srvVars, guardVars>>

\* Lines 18-22 for request r.
CRun(r) ==
    /\ threads[r].pc = "run"
    /\ \E t \in ConcTexts :
        threads' = [threads EXCEPT
                      ![r].pc = "iter",
                      ![r].raw = t,
                      ![r].rest = t,
                      ![r].calls = Append(@, RunCall(locals[Frame(r)].model,
                                                     locals[Frame(r)].prompt))]
    /\ locals' = [locals EXCEPT ![Frame(r)].output = <<>>]
    /\ UNCHANGED <<trimVars, reqVars>>
    /\ UNCHANGED <<srvVars, guardVars>>

\* One pass of request r's for loop.
CIterate(r) ==
    /\ threads[r].pc = "iter"
    /\ threads[r].rest # <<>>
    /\ locals' = [locals EXCEPT
                    ![Frame(r)].output = ListAppend(@, <<Head(threads[r].rest)>>)]
    /\ threads' = [threads EXCEPT ![r].rest = Tail(@)]
    /\ UNCHANGED <<trimVars, reqVars>>
    /\ UNCHANGED <<srvVars, guardVars>>

\* Request r's stream is exhausted.
CEndOfStream(r) ==
    /\ threads[r].pc = "iter"
    /\ threads[r].rest = <<>>
    /\ threads' = [threads EXCEPT ![r].pc = "split"]
    /\ UNCHANGED <<locals, trimVars, reqVars>>
    /\ UNCHANGED <<srvVars, guardVars>>

\* Line 28 for request r.
CSplit(r) ==
    /\ threads[r].pc = "split"
    /\ locals' = [locals EXCEPT
                    ![Frame(r)].sentences = ReSplit(StrJoin(<<>>, locals[Frame(r)].output))]
    /\ threads' = [threads EXCEPT ![r].pc = "filter"]
    /\ UNCHANGED <<trimVars, reqVars>>
    /\ UNCHANGED <<srvVars, guardVars>>

\* Line 31 for request r.
CFilter(r) ==
    /\ threads[r].pc = "filter"
    /\ locals' = [locals EXCEPT ![Frame(r)].sentences = SelectSeq(@, ReSearch)]
    /\ threads' = [threads EXCEPT ![r].pc = "join"]
    /\ UNCHANGED <<trimVars, reqVars>>
    /\ UNCHANGED <<srvVars, guardVars>>

\* Line 34 for request r.
CJoin(r) ==
    /\ threads[r].pc = "join"
    /\ locals' = [locals EXCEPT
                    ![Frame(r)].final_response = StrJoin(<<" ">>, locals[Frame(r)].sentences)]
    /\ threads' = [threads EXCEPT ![r].pc = "return"]
    /\ UNCHANGED <<trimVars, reqVars>>
    /\ UNCHANGED <<srvVars, guardVars>>

\* Line 36 for request r.
CReturn(r) ==
    /\ threads[r].pc = "return"
    /\ threads' = [threads EXCEPT
                     ![r].pc = "done",
                     ![r].reply = ReplyOf(locals[Frame(r)].final_response)]
    /\ UNCHANGED <<locals, trimVars, reqVars>>
    /\ UNCHANGED <<srvVars, guardVars>>

NextConc ==
    \E r \in Requests :
        \/ CReceive(r)
        \/ CRun(r)
        \/ CIterate(r)
        \/ CEndOfStream(r)
        \/ CSplit(r)
        \/ CFilter(r)
        \/ CJoin(r)
        \/ CReturn(r)

SpecConc == InitConc /\ [][NextConc]_vars

----------------------------------------------------------------------------
(* The module-level code and the server: lines 6-9 run once when the       *)
(* module is imported, then requests are handled one after the other.      *)

\* The process has started and nothing of the module has run yet.
InitServer ==
    /\ pc = "idle"
    /\ raw = <<>>
    /\ rest = <<>>
    /\ output = <<>>
    /\ sentences = <<>>
    /\ final_response = <<>>
    /\ reply = NoReply
    /\ query = <<>>
    /\ user_text = <<>>
    /\ instruction = <<>>
    /\ model = <<>>
    /\ prompt = <<>>
    /\ calls = <<>>
    /\ error = "none"
    /\ threads = IdleThreads
    /\ locals = FreshLocals
    /\ environ \in Environs
    /\ rep_client = NoClient
    /\ app = "unbound"
    /\ routes = {}
    /\ proc = "line6"
    /\ served = 0
    /\ previous = NoPrevious
    /\ GuardIdle

\* os.environ.get('replicate_api'): an absent credential reads as None and
\* the import goes on.
ImportClientLenient ==
    /\ proc = "line6"
    /\ rep_client' = Client(ArgsGet(environ, "replicate_api", <<"N", "o", "n", "e">>))
    /\ proc' = "line7"
    /\ UNCHANGED <<environ, app, routes, served, previous>>
    /\ UNCHANGED <<trimVars, reqVars, concVars, guardVars>>

\* Line 6: os.environ['replicate_api'] raises KeyError when the variable is
\* absent and the import of the module, and with it the process, ends;
\* otherwise the client is built with the credential.
ImportClient ==
    /\ proc = "line6"
    /\ IF "replicate_api" \in DOMAIN environ
       THEN /\ rep_client' = Client(environ["replicate_api"])
            /\ proc' = "line7"
       ELSE /\ rep_client' = rep_client
            /\ proc' = "crashed"
    /\ UNCHANGED <<environ, app, routes, served, previous>>
    /\ UNCHANGED <<trimVars, reqVars, concVars, guardVars>>

\* Line 7: app = Flask(__name__)
CreateApp ==
    /\ proc = "line7"
    /\ app' = "Flask"
    /\ proc' = "line9"
    /\ UNCHANGED <<environ, rep_client, routes, served, previous>>
    /\ UNCHANGED <<trimVars, reqVars, concVars, guardVars>>

\* Lines 9-10: the decorator registers predict under /predict.
RegisterRoute ==
    /\ proc = "line9"
    /\ routes' = routes \cup {"/predict"}
    /\ proc' = "main"
    /\ UNCHANGED <<environ, rep_client, app, served, previous>>
    /\ UNCHANGED <<trimVars, reqVars, concVars, guardVars>>

\* Lines 39-40: app.run(...) starts serving.
AppRun ==
    /\ proc = "main"
    /\ proc' = "serving"
    /\ UNCHANGED <<environ, rep_client, app, routes, served, previous>>
    /\ UNCHANGED <<trimVars, reqVars, concVars, guardVars>>

\* The server calls predict for the next request and the frame keeps the
\* locals of the call before.
AcceptStale ==
    /\ proc = "serving"
    /\ "/predict" \in routes
    /\ pc \in {"idle", "done", "error"}
    /\ served < MaxRequests
    /\ served' = served + 1
    /\ previous' = IF pc = "idle" THEN previous
                   ELSE [raw |-> raw, error |-> error, reply |-> reply]
    /\ pc' = "args"
    /\ UNCHANGED <<raw, rest, output, sentences, final_response, reply>>
    /\ UNCHANGED reqVars
    /\ UNCHANGED <<environ, rep_client, app, routes, proc>>
    /\ UNCHANGED <<concVars, guardVars>>

\* The server calls predict for the next request, once the call before has
\* returned or raised (the debug server answers an exception with a 500
\* page and goes on): a new frame, in which no local is bound yet.
Accept ==
    /\ proc = "serving"
    /\ "/predict" \in routes
    /\ pc \in {"idle", "done", "error"}
    /\ served < MaxRequests
    /\ served' = served + 1
    /\ previous' = IF pc = "idle" THEN previous
                   ELSE [raw |-> raw, error |-> error, reply |-> reply]
    /\ pc' = "args"
    /\ raw' = <<>>
    /\ rest' = <<>>
    /\ output' = <<>>
    /\ sentences' = <<>>
    /\ final_response' = <<>>
    /\ reply' = NoReply
    /\ query' = <<>>
    /\ user_text' = <<>>
    /\ instruction' = <<>>
    /\ model' = <<>>
    /\ prompt' = <<>>
    /\ calls' = <<>>
    /\ error' = "none"
    /\ UNCHANGED <<environ, rep_client, app, routes, proc>>
    /\ UNCHANGED <<concVars, guardVars>>

ReceiveServer == ReceiveFrom(ConcQueries)

NextServer ==
    \/ ImportClient
    \/ CreateApp
    \/ RegisterRoute
    \/ AppRun
    \/ Accept
    \/ ReceiveServer
    \/ RunShort
    \/ RunFails
    \/ Iterate
    \/ IterateFails
    \/ EndOfStream
    \/ Split
    \/ Filter
    \/ Join
    \/ Return

SpecServer == InitServer /\ [][NextServer]_vars

----------------------------------------------------------------------------
(* The guardrails library: PromptCallable.__call__ (llm_providers.py),     *)
(* Schema.validate (schema.py), GuardHistory and GuardState (logs_utils).  *)

\* The program itself is at rest while the library is exercised.
ProgramIdle ==
    /\ pc = "idle"
    /\ raw = <<>>
    /\ rest = <<>>
    /\ output = <<>>
    /\ sentences = <<>>
    /\ final_response = <<>>
    /\ reply = NoReply
    /\ query = <<>>
    /\ user_text = <<>>
    /\ instruction = <<>>
    /\ model = <<>>
    /\ prompt = <<>>
    /\ calls = <<>>
    /\ error = "none"
    /\ threads = IdleThreads
    /\ locals = FreshLocals
    /\ environ = <<>>
    /\ rep_client = NoClient
    /\ app = "unbound"
    /\ routes = {}
    /\ proc = "line6"
    /\ served = 0
    /\ previous = NoPrevious

programVars == <<trimVars, reqVars, concVars, srvVars>>

callVars == <<fn_result, call_result>>

validateVars == <<schema, data, dicts, lists, snapshot, validated_response, todo, vresult>>

logVars == <<glogs, ghist, gstate, gop>>

\* What self.fn(*args, **kwargs) can do: return a string, return a value
\* that is not a string, raise an Exception, or raise a BaseException that
\* is not an Exception (KeyboardInterrupt, SystemExit).
FnResults ==
    [kind : {"str", "nonstr", "Exception", "BaseException"}, v : 0..MaxFix]

\* __call__ without the isinstance check of line 34.
PromptCallUnchecked(r) ==
    IF r.kind = "Exception"
        THEN [kind |-> "raise", type |-> "PromptCallableException", v |-> 0]
    ELSE IF r.kind = "BaseException"
        THEN [kind |-> "raise", type |-> "BaseException", v |-> r.v]
    ELSE [kind |-> "return", type |-> r.kind, v |-> r.v]

\* Lines 24-42: an Exception of fn is caught and PromptCallableException
\* raised in its place (a BaseException that is not an Exception passes
\* the except clause); a result that is not a str raises
\* PromptCallableException; a str is returned as it is.
PromptCall(r) ==
    IF r.kind = "Exception"
        THEN [kind |-> "raise", type |-> "PromptCallableException", v |-> 0]
    ELSE IF r.kind = "BaseException"
        THEN [kind |-> "raise", type |-> "BaseException", v |-> r.v]
    ELSE IF r.kind # "str"
        THEN [kind |-> "raise", type |-> "PromptCallableException", v |-> 0]
    ELSE [kind |-> "return", type |-> "str", v |-> r.v]

\* Line 25: the wrapped callable runs.
CallFn ==
    /\ gpc = "call"
    /\ \E r \in FnResults : fn_result' = r
    /\ gpc' = "called"
    /\ UNCHANGED <<call_result, validateVars, logVars, programVars>>

\* Lines 26-42: the outcome of __call__.
CallReturn ==
    /\ gpc = "called"
    /\ call_result' = PromptCall(fn_result)
    /\ gpc' = "end"
    /\ UNCHANGED <<fn_result, validateVars, logVars, programVars>>

\* The values of a dictionary: an integer, a reference to a list, or one of
\* the markers Filter and Refrain a validator puts in place of a value.
IntVal(n) == [kind |-> "int", v |-> n]

ListVal(n) == [kind |-> "list", v |-> n]

FilterVal == [kind |-> "Filter", v |-> 0]

RefrainVal == [kind |-> "Refrain", v |-> 0]

\* The dictionaries a caller passes: any of the fields, each an integer or
\* the caller's list.
DataDicts == UNION {[D -> {IntVal(0), ListVal(1)}] : D \in SUBSET FieldNames}

\* The keys of a dictionary in the order of iteration.
RECURSIVE KeysInOrder(_)
KeysInOrder(D) ==
    IF D = {} THEN <<>>
    ELSE LET k == CHOOSE x \in D : \A y \in D : x = y \/ (x = "a")
         IN  <<k>> \o KeysInOrder(D \ {k})

\* copy.copy(data): a new dictionary whose values are those of data, lists
\* shared with it. Gives the two heaps after the copy.
ShallowCopy(ds, ls, ref) ==
    [dicts |-> Append(ds, ds[ref]), lists |-> ls]

\* Line 320, deepcopy(data): a new dictionary, and for every list it refers
\* to a new list of the same elements. Gives the two heaps after the copy.
DeepCopy(ds, ls, ref) ==
    LET d == ds[ref]
        shift == Len(ls)
    IN  [dicts |-> Append(ds, [k \in DOMAIN d |->
                                 IF d[k].kind = "list" THEN ListVal(d[k].v + shift)
                                 ELSE d[k]]),
         lists |-> ls \o ls]

\* check_refrain_in_dict(d) (line 335): some value is a Refrain.
CheckRefrainInDict(d) == \E k \in DOMAIN d : d[k].kind = "Refrain"

\* filter_in_dict(d) (lines 341-342): a dictionary of the keys whose value
\* is not a Filter.
FilterInDict(d) == [k \in {x \in DOMAIN d : d[x].kind # "Filter"} |-> d[k]]

\* The argument of validate: None, a dictionary or something else.
InitValidate ==
    /\ gpc = "validate"
    /\ schema \in SUBSET FieldNames
    /\ \/ /\ data \in {[kind |-> "None", ref |-> 0], [kind |-> "other", ref |-> 0]}
          /\ dicts = <<>>
       \/ /\ data = [kind |-> "dict", ref |-> 1]
          /\ \E d \in DataDicts : dicts = <<d>>
    /\ lists = << <<0>> >>
    /\ snapshot = [dicts |-> dicts, lists |-> lists]
    /\ validated_response = 0
    /\ todo = <<>>
    /\ vresult = [kind |-> "pending", ref |-> 0]

\* Lines 314-320: None is returned for None, TypeError raised for what is
\* not a dictionary, and a dictionary is copied; the loop of line 322 is
\* over the items of the copy.
ValidateEnter ==
    /\ gpc = "validate"
    /\ IF data.kind = "None"
       THEN /\ vresult' = [kind |-> "None", ref |-> 0]
            /\ gpc' = "end"
            /\ UNCHANGED <<dicts, lists, validated_response, todo>>
       ELSE IF data.kind # "dict"
       THEN /\ vresult' = [kind |-> "TypeError", ref |-> 0]
            /\ gpc' = "end"
            /\ UNCHANGED <<dicts, lists, validated_response, todo>>
       ELSE LET heap == DeepCopy(dicts, lists, data.ref)
            IN  /\ dicts' = heap.dicts
                /\ lists' = heap.lists
                /\ validated_response' = Len(heap.dicts)
                /\ todo' = KeysInOrder(DOMAIN dicts[data.ref])
                /\ gpc' = "loop"
                /\ UNCHANGED vresult
    /\ UNCHANGED <<schema, data, snapshot>>
    /\ UNCHANGED <<callVars, logVars, programVars>>

\* Lines 322-327: the next item is a field that is not in the schema; the
\* loop goes on to the next item.
ValidateSkip ==
    /\ gpc = "loop"
    /\ todo # <<>>
    /\ Head(todo) \notin schema
    /\ todo' = Tail(todo)
    /\ UNCHANGED <<schema, data, dicts, lists, snapshot, validated_response, vresult, gpc>>
    /\ UNCHANGED <<callVars, logVars, programVars>>

\* Lines 329-333: the validators of the field run on (key, value,
\* validated_response). They may leave the value, put a fixed value, a
\* Filter or a Refrain in its place, and may append to the list that is the
\* value; they return the dictionary they were given.
ValidateField ==
    /\ gpc = "loop"
    /\ todo # <<>>
    /\ Head(todo) \in schema
    /\ LET field == Head(todo)
           value == dicts[validated_response][field]
       IN  /\ \E new \in {value, FilterVal, RefrainVal} \cup {IntVal(n) : n \in 1..MaxFix} :
                 dicts' = [dicts EXCEPT ![validated_response][field] = new]
           /\ \/ lists' = lists
              \/ /\ value.kind = "list"
                 /\ \E n \in 1..MaxFix :
                       lists' = [lists EXCEPT ![value.v] = Append(@, n)]
    /\ todo' = Tail(todo)
    /\ UNCHANGED <<schema, data, snapshot, validated_response, vresult, gpc>>
    /\ UNCHANGED <<callVars, logVars, programVars>>

\* Lines 335-344: with a Refrain the result is the empty dictionary;
\* the keys with Filter values are removed and the result returned.
ValidateReturn ==
    /\ gpc = "loop"
    /\ todo = <<>>
    /\ LET work == dicts[validated_response]
           kept == IF CheckRefrainInDict(work) THEN <<>> ELSE work
       IN  dicts' = Append(dicts, FilterInDict(kept))
    /\ validated_response' = Len(dicts')
    /\ vresult' = [kind |-> "dict", ref |-> Len(dicts')]
    /\ gpc' = "end"
    /\ UNCHANGED <<schema, data, lists, snapshot, todo>>
    /\ UNCHANGED <<callVars, logVars, programVars>>

\* self.history.append(item): the list of the receiver itself grows, and
\* the new object holds the same list.
PushInPlace(heap, recv, item) ==
    Append([heap EXCEPT ![recv] = Append(@, item)], Append(heap[recv], item))

\* Lines 52 and 88, GuardHistory(self.history + [guard_log]) and
\* GuardState(self.all_histories + [guard_history]): + builds a new list and
\* the constructor a new object around it. Gives the heap of objects after.
PushNew(heap, recv, item) == Append(heap, Append(heap[recv], item))

\* Lines 111-161, merge_reask_output(prev_logs, current_logs): the value is
\* None (no return statement is reached), or the previous output with
\* none or all of its elements replaced by the current ones.
MergeReaskOutput(prev_logs, current_logs) ==
    {0, prev_logs.validated_output, current_logs.validated_output}

\* Lines 91-95, most_recent_call: None (0) for the empty list, else the
\* last history.
MostRecentCall(all_histories) ==
    IF Len(all_histories) = 0 THEN 0 ELSE all_histories[Len(all_histories)]

\* The objects at hand: the logs of the calls, an empty GuardHistory and an
\* empty GuardState.
InitLogs ==
    /\ gpc = "push"
    /\ glogs = [l \in Logs |-> [validated_output |-> l]]
    /\ ghist = << <<>> >>
    /\ gstate = << <<>> >>
    /\ gop = [op |-> "none", recv |-> 0, arg |-> 0, ret |-> 0]

\* Lines 47-52, GuardHistory.push(guard_log) on the history h: with a
\* non-empty history the validated output of guard_log is replaced by the
\* merge with the last log; a new GuardHistory is returned.
HistoryPush(h, l) ==
    /\ gpc = "push"
    /\ Len(ghist) + Len(gstate) < MaxPushes + 2
    /\ IF Len(ghist[h]) > 0
       THEN \E m \in MergeReaskOutput(glogs[ghist[h][Len(ghist[h])]], glogs[l]) :
                glogs' = [glogs EXCEPT ![l].validated_output = m]
       ELSE glogs' = glogs
    /\ ghist' = PushNew(ghist, h, l)
    /\ gop' = [op |-> "GuardHistory.push", recv |-> h, arg |-> l, ret |-> Len(ghist')]
    /\ UNCHANGED <<gstate, gpc>>
    /\ UNCHANGED <<callVars, validateVars, programVars>>

\* Lines 48-50: merge_reask_output raises (an element asked again is missing
\* from the current output) and so does push; nothing is returned.
HistoryPushRaises(h, l) ==
    /\ gpc = "push"
    /\ Len(ghist[h]) > 0
    /\ gop' = [op |-> "GuardHistory.push raised", recv |-> h, arg |-> l, ret |-> 0]
    /\ UNCHANGED <<glogs, ghist, gstate, gpc>>
    /\ UNCHANGED <<callVars, validateVars, programVars>>

\* Lines 87-88, GuardState.push(guard_history) on the state s.
StatePush(s, h) ==
    /\ gpc = "push"
    /\ Len(ghist) + Len(gstate) < MaxPushes + 2
    /\ gstate' = PushNew(gstate, s, h)
    /\ gop' = [op |-> "GuardState.push", recv |-> s, arg |-> h, ret |-> Len(gstate')]
    /\ UNCHANGED <<glogs, ghist, gpc>>
    /\ UNCHANGED <<callVars, validateVars, programVars>>

\* One of the three operations is about to run, the others are at rest.
InitGuard ==
    /\ ProgramIdle
    /\ gpc \in {"call", "validate", "push"}
    /\ fn_result = [kind |-> "none", v |-> 0]
    /\ call_result = [kind |-> "none", type |-> "none", v |-> 0]
    /\ IF gpc = "validate" THEN InitValidate
       ELSE /\ schema = {}
            /\ data = [kind |-> "unset", ref |-> 0]
            /\ dicts = <<>>
            /\ lists = <<>>
            /\ snapshot = [dicts |-> <<>>, lists |-> <<>>]
            /\ validated_response = 0
            /\ todo = <<>>
            /\ vresult = [kind |-> "pending", ref |-> 0]
    /\ IF gpc = "push" THEN InitLogs
       ELSE /\ glogs = <<>>
            /\ ghist = <<>>
            /\ gstate = <<>>
            /\ gop = [op |-> "none", recv |-> 0, arg |-> 0, ret |-> 0]

NextGuard ==
    \/ CallFn
    \/ CallReturn
    \/ ValidateEnter
    \/ ValidateSkip
    \/ ValidateField
    \/ ValidateReturn
    \/ \E h \in DOMAIN ghist, l \in DOMAIN glogs : HistoryPush(h, l)
    \/ \E h \in DOMAIN ghist, l \in DOMAIN glogs : HistoryPushRaises(h, l)
    \/ \E s \in DOMAIN gstate, h \in DOMAIN ghist : StatePush(s, h)

SpecGuard == InitGuard /\ [][NextGuard]_vars

----------------------------------------------------------------------------
(* Vocabulary of the properties.                                           *)

\* The last character of s is a terminator.
EndsInTerminator(s) == s # <<>> /\ IsTerminator(s[Len(s)])

\* The position just after the maximal run of characters of WS starting at i.
RECURSIVE WsRunEnd(_, _, _)
WsRunEnd(text, i, WS) ==
    IF i <= Len(text) /\ text[i] \in WS
    THEN WsRunEnd(text, i + 1, WS)
    ELSE i

\* s has a terminator directly followed by a character of WS.
HasBoundary(s, WS) ==
    \E j \in 1..(Len(s) - 1) : IsTerminator(s[j]) /\ s[j + 1] \in WS

\* From position pos on, text reads as the candidates cs[k], cs[k+1], ...
\* where each candidate but the last ends in a terminator and is followed by
\* a maximal non-empty run of WS that belongs to no candidate, and no
\* candidate holds a terminator directly followed by a character of WS.
RECURSIVE SplitsAs(_, _, _, _, _)
SplitsAs(text, pos, cs, k, WS) ==
    LET c == cs[k]
        e == pos + Len(c) - 1
    IN  /\ e <= Len(text)
        /\ SubSeq(text, pos, e) = c
        /\ ~HasBoundary(c, WS)
        /\ IF k = Len(cs)
           THEN e = Len(text)
           ELSE /\ EndsInTerminator(c)
                /\ e + 1 <= Len(text)
                /\ text[e + 1] \in WS
                /\ SplitsAs(text, WsRunEnd(text, e + 1, WS), cs, k + 1, WS)

\* Total length of the first n elements of list.
RECURSIVE SumLen(_, _)
SumLen(list, n) == IF n = 0 THEN 0 ELSE SumLen(list, n - 1) + Len(list[n])

\* Where list[k] starts in a text that joins list with one-character separators.
Offset(list, k) == SumLen(list, k - 1) + k

\* resp is the elements of list in order with exactly one space between
\* neighbours and nothing before the first or after the last.
JoinedBySingleSpaces(resp, list) ==
    /\ Len(resp) = IF list = <<>> THEN 0 ELSE SumLen(list, Len(list)) + Len(list) - 1
    /\ \A k \in DOMAIN list :
          SubSeq(resp, Offset(list, k), Offset(list, k) + Len(list[k]) - 1) = list[k]
    /\ \A k \in 1..(Len(list) - 1) : resp[Offset(list, k) + Len(list[k])] = " "

\* kept is cands restricted to the candidates the filter accepts, in order.
SurvivorsInOrder(kept, cands) ==
    LET I == {k \in DOMAIN cands : ReSearch(cands[k])}
    IN  /\ Len(kept) = Cardinality(I)
        /\ \A k \in I : kept[Cardinality({j \in I : j <= k})] = cands[k]

----------------------------------------------------------------------------
(* C1 - sentence splitting.                                                *)

\* C1 as stated: the candidates are the raw text cut after every terminator
\* that is followed by whitespace of any kind (space, tab, newline), the
\* whole whitespace run consumed and the terminator kept as the last
\* character of the candidate before the cut.
C1_SplitOnAnyWhitespace ==
    pc = "filter" => SplitsAs(raw, 1, sentences, 1, Whitespace)

\* C1 amended: the candidates are the raw text cut after every terminator
\* that is followed by one or more space characters; the whole run of spaces
\* is consumed, the terminator stays the last character of the candidate
\* before the cut, and other whitespace after a terminator is no cut.
C1_SplitOnSpaces ==
    pc = "filter" => SplitsAs(raw, 1, sentences, 1, {" "})

\* A text with a terminator followed by two spaces has been split in two.
C1_Witness ==
    /\ pc = "filter"
    /\ Len(sentences) = 2
    /\ \E i \in 1..(Len(raw) - 2) :
          IsTerminator(raw[i]) /\ raw[i + 1] = " " /\ raw[i + 2] = " "

----------------------------------------------------------------------------
(* C2 - filtering.                                                         *)

\* C2 as stated: the filter step keeps exactly the candidates whose last
\* character is a terminator and discards every other candidate.
C2_KeptIffEndsInTerminator ==
    [][pc = "filter" => sentences' = SelectSeq(sentences, EndsInTerminator)]_vars

----------------------------------------------------------------------------
(* C3 - the response holds complete sentences only.                        *)

\* C3 as stated: the response is empty or its last character is a terminator.
C3_ResponseEndsInTerminator ==
    pc = "done" => final_response = <<>> \/ EndsInTerminator(final_response)

----------------------------------------------------------------------------
(* C4 - no complete sentence, empty response.                              *)

\* C4 as stated: when no candidate of the raw text has a terminator as its
\* last character, the response is the empty string.
C4_NoTerminatedCandidateGivesEmpty ==
    (pc = "done" /\ \A k \in DOMAIN ReSplit(raw) : ~EndsInTerminator(ReSplit(raw)[k]))
        => final_response = <<>>

----------------------------------------------------------------------------
(* C5 - rejoin.                                                            *)

\* C5: the response is the surviving candidates, in their original order
\* with none duplicated or reordered, with exactly one space between
\* consecutive survivors and no separator before the first or after the last.
C5_RejoinSingleSpaces ==
    pc \in {"return", "done"} =>
        /\ SurvivorsInOrder(sentences, ReSplit(raw))
        /\ JoinedBySingleSpaces(final_response, sentences)

\* Two candidates survived and were joined.
C5_Witness ==
    /\ pc = "done"
    /\ Len(sentences) >= 2
    /\ Len(ReSplit(raw)) > Len(sentences)

----------------------------------------------------------------------------
(* C6 - fragment-join invariance.                                          *)

\* C6: however the service cuts the raw text into fragments, what has been
\* read so far followed by what is still to come is the raw text, character
\* for character, and the response is the response for the single fragment
\* list [raw].
C6_FragmentJoinInvariance ==
    /\ pc # "run" => StrJoin(<<>>, output) \o rest = raw
    /\ pc = "done" => final_response = Predict(<<raw>>)

\* A stream with an empty fragment and with a fragment boundary between a
\* terminator and the space after it has produced a non-empty response.
C6_Witness ==
    /\ pc = "done"
    /\ final_response # <<>>
    /\ \E k \in DOMAIN output : output[k] = <<>>
    /\ \E k \in 1..(Len(output) - 1) :
          /\ EndsInTerminator(output[k])
          /\ output[k + 1] # <<>>
          /\ output[k + 1][1] = " "

----------------------------------------------------------------------------
(* C7 - idempotence on well-formed input.                                  *)

\* One complete sentence: it does not start with whitespace, its last
\* character is a terminator, and no terminator inside it is followed by
\* whitespace (that would be a sentence boundary).
Sentence(s) ==
    /\ s # <<>>
    /\ s[1] \notin Whitespace
    /\ EndsInTerminator(s)
    /\ ~HasBoundary(s, Whitespace)

\* One or more complete sentences separated by single spaces.
RECURSIVE WellFormed(_)
WellFormed(t) ==
    \/ Sentence(t)
    \/ \E i \in 2..(Len(t) - 1) :
          /\ t[i] = " "
          /\ Sentence(SubSeq(t, 1, i - 1))
          /\ WellFormed(SubSeq(t, i + 1, Len(t)))

\* C7: a raw text that is already complete sentences separated by single
\* spaces is returned unchanged, and trimming any response again returns it
\* unchanged.
C7_IdempotentOnWellFormed ==
    pc = "done" =>
        /\ WellFormed(raw) => final_response = raw
        /\ Predict(<<final_response>>) = final_response

\* A well-formed text of two sentences has been trimmed.
C7_Witness ==
    /\ pc = "done"
    /\ WellFormed(raw)
    /\ ~Sentence(raw)
    /\ \E i \in DOMAIN raw : raw[i] = "?"

----------------------------------------------------------------------------
(* C8 - trailing-fragment removal.                                         *)

\* A trailing partial sentence: it is not empty, does not start with
\* whitespace, does not end in a terminator and holds no sentence boundary.
Fragment(f) ==
    /\ f # <<>>
    /\ f[1] \notin Whitespace
    /\ ~EndsInTerminator(f)
    /\ ~HasBoundary(f, Whitespace)

\* text is well-formed sentences (its first i characters), then a run of
\* characters of WS, then a trailing fragment that starts at position j.
TrailingFragmentAt(text, i, j, WS) ==
    /\ 1 <= i
    /\ i + 1 < j
    /\ j <= Len(text)
    /\ WellFormed(SubSeq(text, 1, i))
    /\ \A m \in (i + 1)..(j - 1) : text[m] \in WS
    /\ Fragment(SubSeq(text, j, Len(text)))

----------------------------------------------------------------------------
(* C9 - only the final candidate can be discarded.                         *)

\* C9: when the filter runs, every candidate other than the last ends in a
\* terminator and is kept in place, so at most one candidate, the last, is
\* removed.
C9_OnlyLastCandidateDiscarded ==
    [][pc = "filter" =>
          /\ \A k \in 1..(Len(sentences) - 1) :
                EndsInTerminator(sentences[k]) /\ sentences'[k] = sentences[k]
          /\ Len(sentences') >= Len(sentences) - 1]_vars

\* The filter has discarded the last of several candidates.
C9_Witness ==
    /\ pc = "join"
    /\ Len(sentences) >= 1
    /\ Len(ReSplit(raw)) = Len(sentences) + 1

----------------------------------------------------------------------------
(* C10 - a single complete sentence.                                       *)

\* C10: a raw text that is exactly one complete sentence, with nothing after
\* its terminator, is returned character for character.
C10_SingleSentenceUnchanged ==
    (pc = "done" /\ Sentence(raw)) => final_response = raw

\* A single sentence with a space inside has been returned.
C10_Witness ==
    /\ pc = "done"
    /\ Sentence(raw)
    /\ \E i \in DOMAIN raw : raw[i] = " "
    /\ final_response = raw

----------------------------------------------------------------------------
(* C11 - the split is applied at every boundary.                           *)

\* The positions of text that hold a terminator directly followed by a
\* character of WS.
Boundaries(text, WS) ==
    {i \in 1..(Len(text) - 1) : IsTerminator(text[i]) /\ text[i + 1] \in WS}

\* C11 as stated: a text with k terminators followed by whitespace of any
\* kind yields k+1 candidates; a run of terminators is cut once, after its
\* last terminator.
C11_SplitAtEveryWhitespaceBoundary ==
    pc = "filter" =>
        /\ Len(sentences) = Cardinality(Boundaries(raw, Whitespace)) + 1
        /\ raw = <<".", "?", " ", ".">> => sentences = << <<".", "?">>, <<".">> >>

\* C11 amended: a text with k terminators followed by a space yields k+1
\* candidates; a run of terminators is cut once, after its last terminator,
\* and the response for such a text is the text.
C11_SplitAtEverySpaceBoundary ==
    /\ pc = "filter" =>
          /\ Len(sentences) = Cardinality(Boundaries(raw, {" "})) + 1
          /\ raw = <<".", "?", " ", ".">> => sentences = << <<".", "?">>, <<".">> >>
    /\ (pc = "done" /\ raw = <<".", "?", " ", ".">>) => final_response = raw

\* A text with two boundaries has been split in three.
C11_Witness ==
    /\ pc = "filter"
    /\ Cardinality(Boundaries(raw, {" "})) = 2
    /\ Len(sentences) = 3

----------------------------------------------------------------------------
(* C12 - the trimmer is total.                                             *)

\* Every fragment of list is a string.
AllStrings(list) == \A k \in DOMAIN list : list[k] # NonString

\* C12: for every drained sequence of string fragments, the empty sequence
\* and empty strings included, no trimmer step raises, each trimmer step
\* can be taken, and the result is a string.
C12_TrimmerTotal ==
    /\ error = "TypeError" => ~AllStrings(output)
    /\ (pc \in {"split", "filter", "join", "return"} /\ AllStrings(output))
          => ENABLED (Split \/ Filter \/ Join \/ Return)
    /\ pc = "done" =>
          /\ AllStrings(output)
          /\ \A i \in DOMAIN final_response : final_response[i] \in Alphabet

\* The empty fragment sequence has been trimmed to a reply.
C12_Witness ==
    /\ pc = "done"
    /\ output = <<>>
    /\ reply = ReplyOf(<<>>)

----------------------------------------------------------------------------
(* C13 - prompt composition.                                               *)

\* C13: the prompt is "instruction: ", the instruction, "\ninput: ", the
\* input and "\noutput:", with both fields exactly as in the query string,
\* and that prompt is what the generation call receives.
C13_PromptComposition ==
    pc # "args" =>
        LET n == Len(instruction)
            m == Len(user_text)
        IN  /\ "instruction" \in DOMAIN query => instruction = query["instruction"]
            /\ "input" \in DOMAIN query => user_text = query["input"]
            /\ Len(prompt) = 13 + n + 8 + m + 8
            /\ SubSeq(prompt, 1, 13) = LitInstruction
            /\ SubSeq(prompt, 14, 13 + n) = instruction
            /\ SubSeq(prompt, 14 + n, 21 + n) = LitInput
            /\ SubSeq(prompt, 22 + n, 21 + n + m) = user_text
            /\ SubSeq(prompt, 22 + n + m, 29 + n + m) = LitOutput
            /\ \A c \in DOMAIN calls : calls[c].input.prompt = prompt

\* A call has been made for an instruction that is a newline and an input
\* that is the empty string.
C13_Witness ==
    /\ calls # <<>>
    /\ "input" \in DOMAIN query
    /\ user_text = <<>>
    /\ instruction = <<"\n">>

----------------------------------------------------------------------------
(* C14 - absent query parameters.                                          *)

\* C14: an absent parameter reads as the empty string and the request is
\* not rejected for it: the only errors come after the generation call was
\* made, and with no parameter at all the prompt is
\* "instruction: \ninput: \noutput:" and the call is made with an empty
\* model identifier.
C14_AbsentParametersDefault ==
    /\ pc # "args" =>
          /\ "input" \notin DOMAIN query => user_text = <<>>
          /\ "instruction" \notin DOMAIN query => instruction = <<>>
          /\ "model" \notin DOMAIN query => model = <<>>
          /\ DOMAIN query = {} => prompt = LitInstruction \o LitInput \o LitOutput
    /\ pc = "error" => calls # <<>>
    /\ pc = "run" => ENABLED RunShort
    /\ pc \notin {"args", "run"} => Len(calls) = 1 /\ calls[1].model = model

\* The call has been made for a request without any parameter.
C14_Witness ==
    /\ pc = "iter"
    /\ DOMAIN query = {}
    /\ Len(calls) = 1
    /\ calls[1] = RunCall(<<>>, LitInstruction \o LitInput \o LitOutput)

----------------------------------------------------------------------------
(* C15 - the arguments of the generation call.                             *)

\* C15: once past the call, the request has invoked the service with the
\* model identifier of the query string, the composed prompt and a maximum
\* length of 100, whatever the query string holds.
C15_CallArguments ==
    pc \notin {"args", "run"} =>
        /\ calls # <<>>
        /\ \A c \in DOMAIN calls :
              /\ calls[c].model = IF "model" \in DOMAIN query THEN query["model"] ELSE <<>>
              /\ DOMAIN calls[c].input = {"prompt", "max_length"}
              /\ calls[c].input.prompt = prompt
              /\ calls[c].input.max_length = 100

\* A request with a model identifier and a non-empty input has been served.
C15_Witness ==
    /\ pc = "done"
    /\ "model" \in DOMAIN query
    /\ query["model"] # <<>>
    /\ user_text # <<>>

----------------------------------------------------------------------------
(* C16 - the stream is drained before the trimmer runs.                    *)

\* C16: while fragments are still being read there is no reply and no
\* trimmer result; the trimmer steps and the reply come only when the stream
\* has nothing left and every fragment has been appended.
C16_ResponseAfterDrain ==
    /\ pc \in {"args", "run", "iter"} =>
          reply = NoReply /\ sentences = <<>> /\ final_response = <<>>
    /\ pc \in {"split", "filter", "join", "return", "done"} =>
          /\ rest = <<>>
          /\ AllStrings(output) => StrJoin(<<>>, output) = raw
    /\ reply # NoReply => pc = "done" /\ rest = <<>>

\* A reply has been produced from a stream of several fragments.
C16_Witness ==
    /\ pc = "done"
    /\ Len(output) >= 2
    /\ Len(raw) >= 2
    /\ reply = ReplyOf(raw)

----------------------------------------------------------------------------
(* C17 - no retry.                                                         *)

\* C17: a request invokes the generation service at most once, and exactly
\* once when it is past the call, whether the call returned, raised, or its
\* stream raised while being read.
C17_CalledExactlyOnce ==
    /\ Len(calls) <= 1
    /\ pc \notin {"args", "run"} => Len(calls) = 1

\* The stream has raised after fragments were read; one call was made.
C17_Witness ==
    /\ pc = "error"
    /\ error = "ReplicateError"
    /\ output # <<>>
    /\ Len(calls) = 1

----------------------------------------------------------------------------
(* C18 - a failure of the generation call propagates.                      *)

\* C18: when the generation call or its stream has raised, the request is
\* in its error state for good: no step follows, no reply is produced and
\* the fragments read so far are not trimmed into a result.
C18_FailurePropagates ==
    error = "ReplicateError" =>
        /\ pc = "error"
        /\ reply = NoReply
        /\ sentences = <<>>
        /\ final_response = <<>>
        /\ ~ENABLED NextRequest

\* The stream has raised after a complete sentence had been read.
C18_Witness ==
    /\ pc = "error"
    /\ error = "ReplicateError"
    /\ \E k \in DOMAIN output : EndsInTerminator(output[k])

----------------------------------------------------------------------------
(* C19 - the reply of a successful request.                                *)

\* C19: a request whose call returned and whose stream ended after string
\* fragments only reaches its reply, and the reply has status 200 and a
\* JSON object with the single key 'response' holding the trimmed text.
C19_SuccessReply ==
    /\ [](pc = "done" =>
            /\ reply.status = 200
            /\ DOMAIN reply.json = {"response"}
            /\ reply.json.response = Predict(<<raw>>))
    /\ (pc = "split" /\ AllStrings(output)) ~> (pc = "done")

\* A reply has been produced whose text is shorter than the generated text.
C19_Witness ==
    /\ pc = "done"
    /\ reply.status = 200
    /\ reply.json.response # <<>>
    /\ reply.json.response # raw

----------------------------------------------------------------------------
(* C20 - concurrent requests are independent.                              *)

\* The fragments of a stream that yields text one character at a time.
Chars(text) == [i \in DOMAIN text |-> <<text[i]>>]

\* The prompt predict composes for the query string q.
PromptFor(q) == ComposePrompt(ArgsGet(q, "instruction", <<>>), ArgsGet(q, "input", <<>>))

\* C20: however the steps of the requests interleave, each request calls the
\* service with the prompt of its own parameters, and the response it
\* computes and returns is the one predict gives for its own fragments
\* alone.
C20_RequestsIndependent ==
    \A r \in Requests :
        /\ \A c \in DOMAIN threads[r].calls :
              threads[r].calls[c] = RunCall(ArgsGet(threads[r].query, "model", <<>>),
                                            PromptFor(threads[r].query))
        /\ threads[r].pc = "return" =>
              locals[Frame(r)].final_response = Predict(Chars(threads[r].raw))
        /\ threads[r].pc = "done" =>
              threads[r].reply = ReplyOf(Predict(Chars(threads[r].raw)))

\* Request 1 has computed a non-empty response while request 2, with other
\* parameters and another text, is in the middle of its stream.
C20_Witness ==
    /\ threads[1].pc = "return"
    /\ locals[Frame(1)].final_response # <<>>
    /\ threads[2].pc = "iter"
    /\ threads[2].rest # <<>>
    /\ locals[Frame(2)].output # <<>>
    /\ threads[1].query # threads[2].query
    /\ threads[1].raw # threads[2].raw

----------------------------------------------------------------------------
(* C21 - no state persists across requests.                                *)

\* A step of predict, from its first line to its return or its exception.
HandlerStep ==
    \/ ReceiveServer
    \/ RunShort
    \/ RunFails
    \/ Iterate
    \/ IterateFails
    \/ EndOfStream
    \/ Split
    \/ Filter
    \/ Join
    \/ Return

\* When predict is entered none of its locals holds anything of the request
\* before, the module-level names are what the import made them, and the
\* prompt and the reply are those of the request's own parameters and
\* stream, whatever the request before was.
FrameIsFresh ==
    /\ pc = "args" =>
          /\ output = <<>> /\ sentences = <<>> /\ prompt = <<>>
          /\ final_response = <<>> /\ reply = NoReply /\ error = "none"
    /\ pc \notin {"idle"} =>
          /\ rep_client = Client(environ["replicate_api"])
          /\ app = "Flask"
          /\ routes = {"/predict"}
    /\ pc \in {"iter", "split", "filter", "join", "return", "done"} =>
          /\ prompt = PromptFor(query)
          /\ Len(calls) = 1
    /\ pc = "done" => reply = ReplyOf(Predict(<<raw>>))

\* C21: a step of predict leaves rep_client, app and the routes as they
\* are, whether the request succeeds or fails, and in every state the frame
\* of the request at hand holds nothing of the request before it.
C21_NoStateAcrossRequests ==
    /\ []FrameIsFresh
    /\ [][HandlerStep => rep_client' = rep_client /\ app' = app /\ routes' = routes]_vars

\* The second request has been answered with a response that differs from
\* the response of the first.
C21_Witness ==
    /\ served = 2
    /\ pc = "done"
    /\ previous.reply # NoReply
    /\ previous.raw # raw
    /\ reply # previous.reply

----------------------------------------------------------------------------
(* C22 - the credential is required at startup.                            *)

\* C22: the token of the client is the value of replicate_api in the
\* environment; without that variable the process ends at line 6, before
\* the application object exists and before the route is registered, no
\* request is accepted and no generation call is made.
C22_CredentialRequired ==
    /\ rep_client.bound =>
          /\ "replicate_api" \in DOMAIN environ
          /\ rep_client.api_token = environ["replicate_api"]
    /\ "replicate_api" \notin DOMAIN environ =>
          /\ proc \in {"line6", "crashed"}
          /\ ~rep_client.bound
          /\ app = "unbound"
          /\ routes = {}
          /\ served = 0
          /\ pc = "idle"
          /\ calls = <<>>
          /\ reply = NoReply
          /\ ~ENABLED Accept
    /\ proc = "crashed" => "replicate_api" \notin DOMAIN environ

\* The process has ended at line 6 for want of the credential.
C22_Witness ==
    /\ proc = "crashed"
    /\ "replicate_api" \notin DOMAIN environ

----------------------------------------------------------------------------
(* C23 - the response is the raw text with characters deleted.             *)

\* s can be obtained from t by deleting characters.
RECURSIVE IsSubsequence(_, _)
IsSubsequence(s, t) ==
    IF s = <<>> THEN TRUE
    ELSE IF t = <<>> THEN FALSE
    ELSE IF s[1] = t[1] THEN IsSubsequence(Tail(s), Tail(t))
    ELSE IsSubsequence(s, Tail(t))

\* C23: the response is a subsequence of the raw text, so it is no longer
\* than the raw text.
C23_ResponseIsSubsequence ==
    pc = "done" =>
        /\ IsSubsequence(final_response, raw)
        /\ Len(final_response) <= Len(raw)

\* Two sentences separated by two spaces have been returned with one.
C23_Witness ==
    /\ pc = "done"
    /\ Len(sentences) = 2
    /\ final_response # <<>>
    /\ Len(final_response) < Len(raw)

----------------------------------------------------------------------------
(* C24 - whitespace away from split points is left untouched.              *)

\* Position i of text is a space in a run of spaces that directly follows a
\* terminator.
InSplitRun(text, i) ==
    /\ i \in DOMAIN text
    /\ text[i] = " "
    /\ \E j \in 1..(i - 1) :
          IsTerminator(text[j]) /\ \A m \in (j + 1)..i : text[m] = " "

\* text with every run of spaces that directly follows a terminator reduced
\* to its first space, and every other character kept.
RECURSIVE SqueezeFrom(_, _)
SqueezeFrom(text, i) ==
    IF i > Len(text) THEN <<>>
    ELSE IF InSplitRun(text, i) /\ InSplitRun(text, i - 1)
         THEN SqueezeFrom(text, i + 1)
         ELSE <<text[i]>> \o SqueezeFrom(text, i + 1)

\* The text up to the end of its last surviving candidate: all of it when
\* the filter accepts its end, else what precedes the last split point.
SurvivingPart(text) ==
    IF ReSearch(text) THEN text
    ELSE IF Boundaries(text, {" "}) = {} THEN <<>>
    ELSE SubSeq(text, 1, CHOOSE j \in Boundaries(text, {" "}) :
                             \A m \in Boundaries(text, {" "}) : m <= j)

\* C24: the response is the surviving part of the raw text with nothing
\* changed but the runs of spaces at split points, which become one space:
\* leading whitespace and whitespace inside a sentence are as in the raw text.
C24_OtherWhitespaceUntouched ==
    pc = "done" => final_response = SqueezeFrom(SurvivingPart(raw), 1)

\* A text with leading spaces has been returned with them.
C24_Witness ==
    /\ pc = "done"
    /\ Len(raw) >= 3
    /\ raw[1] = " "
    /\ raw[2] = " "
    /\ final_response = raw

----------------------------------------------------------------------------
(* C25 - runs of spaces at split points are normalised.                    *)

\* C25: the response never ends in a space and never holds a terminator
\* followed by two spaces; a raw text that ends in a terminator followed by
\* spaces only gives the response of the text without those spaces.
C25_SplitRunsNormalised ==
    pc = "done" =>
        /\ final_response # <<>> => final_response[Len(final_response)] # " "
        /\ \A i \in 1..(Len(final_response) - 2) :
              ~(/\ IsTerminator(final_response[i])
                /\ final_response[i + 1] = " "
                /\ final_response[i + 2] = " ")
        /\ \A i \in 1..(Len(raw) - 1) :
              (IsTerminator(raw[i]) /\ \A m \in (i + 1)..Len(raw) : raw[m] = " ")
                  => final_response = Predict(<<SubSeq(raw, 1, i)>>)

\* A text with two spaces between two sentences, or after its last
\* sentence, has been trimmed to a non-empty response.
C25_Witness ==
    /\ pc = "done"
    /\ final_response # <<>>
    /\ \E i \in 1..(Len(raw) - 2) :
          IsTerminator(raw[i]) /\ raw[i + 1] = " " /\ raw[i + 2] = " "
    /\ raw[Len(raw)] = " "

----------------------------------------------------------------------------
(* C26 - a fragment that is not a string.                                  *)

\* C26: once the stream has yielded a non-string fragment, the fragment
\* stays in the list, no trimmer result and no reply is ever produced, and
\* when the stream has ended the concatenation raises: the TypeError comes
\* only after the stream is drained.
C26_NonStringFragmentFails ==
    /\ ~AllStrings(output) =>
          /\ pc \in {"iter", "split", "error"}
          /\ sentences = <<>>
          /\ final_response = <<>>
          /\ reply = NoReply
    /\ (pc = "split" /\ ~AllStrings(output)) => ENABLED SplitRaises /\ ~ENABLED Split
    /\ error = "TypeError" => pc = "error" /\ rest = <<>> /\ ~AllStrings(output)

\* The concatenation has raised for a stream of a sentence and an object.
C26_Witness ==
    /\ pc = "error"
    /\ error = "TypeError"
    /\ Len(output) >= 2
    /\ \E k \in DOMAIN output : EndsInTerminator(output[k])

----------------------------------------------------------------------------
(* C27 - PromptCallable.__call__.                                          *)

\* C27: when the wrapped callable raises an Exception or returns a value
\* that is not a string, the call raises PromptCallableException; when it
\* returns a string, the call returns that string; nothing but a string is
\* ever returned.
C27_PromptCallableOutcome ==
    call_result.kind # "none" =>
        /\ fn_result.kind \in {"Exception", "nonstr"} =>
              /\ call_result.kind = "raise"
              /\ call_result.type = "PromptCallableException"
        /\ fn_result.kind = "str" =>
              /\ call_result.kind = "return"
              /\ call_result.type = "str"
              /\ call_result.v = fn_result.v
        /\ call_result.kind = "return" => call_result.type = "str"

\* The callable has returned a value that is not a string and the call has
\* raised.
C27_Witness ==
    /\ gpc = "end"
    /\ fn_result.kind = "nonstr"
    /\ call_result.kind = "raise"

----------------------------------------------------------------------------
(* C28 - fields that are not in the schema.                                *)

\* C28: the dictionary validate returns has no key that is absent from the
\* schema.
C28_NoExtraKeyReturned ==
    vresult.kind = "dict" => DOMAIN dicts[vresult.ref] \subseteq schema

----------------------------------------------------------------------------
(* C29 - validate does not mutate its argument.                            *)

\* C29: during and after validate every dictionary and every list the
\* caller had is what it was before the call; None gives None; an argument
\* that is not a dictionary gives TypeError and an untouched heap; a
\* dictionary is never itself the one validate works on.
C29_ArgumentNotMutated ==
    /\ \A i \in DOMAIN snapshot.dicts : dicts[i] = snapshot.dicts[i]
    /\ \A i \in DOMAIN snapshot.lists : lists[i] = snapshot.lists[i]
    /\ (gpc = "end" /\ data.kind = "None") => vresult.kind = "None"
    /\ (gpc = "end" /\ data.kind = "other") =>
          /\ vresult.kind = "TypeError"
          /\ dicts = snapshot.dicts
          /\ lists = snapshot.lists
    /\ (gpc \in {"loop", "end"} /\ data.kind = "dict") =>
          /\ validated_response # data.ref
          /\ \A k \in DOMAIN dicts[validated_response] :
                dicts[validated_response][k].kind = "list" =>
                    dicts[validated_response][k].v \notin DOMAIN snapshot.lists

\* validate has returned after a validator has replaced a value of the
\* working dictionary and appended to the list that is another value.
C29_Witness ==
    /\ gpc = "end"
    /\ vresult.kind = "dict"
    /\ data.kind = "dict"
    /\ \E k \in DOMAIN dicts[data.ref] : dicts[data.ref][k].kind = "list"
    /\ \E i \in DOMAIN lists : i \notin DOMAIN snapshot.lists /\ Len(lists[i]) > 1
    /\ \E k \in DOMAIN dicts[data.ref] :
          /\ k \in DOMAIN dicts[vresult.ref]
          /\ dicts[vresult.ref][k] = IntVal(1)

----------------------------------------------------------------------------
(* C30 - GuardHistory.push and GuardState.push are persistent appends.     *)

\* A step of push leaves the list of every GuardHistory and GuardState
\* object that exists as it is, and every log but the pushed one; the
\* object it returns is a new one, with the receiver's list followed by the
\* pushed element, and for a GuardState the pushed history is its
\* most_recent_call.
PushStep ==
    /\ \A i \in DOMAIN ghist : ghist'[i] = ghist[i]
    /\ \A i \in DOMAIN gstate : gstate'[i] = gstate[i]
    /\ \A l \in DOMAIN glogs :
          (l # gop'.arg \/ gop'.op # "GuardHistory.push") => glogs'[l] = glogs[l]
    /\ Len(ghist') > Len(ghist) =>
          /\ gop'.op = "GuardHistory.push"
          /\ gop'.ret = Len(ghist) + 1
          /\ ghist'[gop'.ret] = ghist[gop'.recv] \o <<gop'.arg>>
    /\ Len(gstate') > Len(gstate) =>
          /\ gop'.op = "GuardState.push"
          /\ gop'.ret = Len(gstate) + 1
          /\ gstate'[gop'.ret] = gstate[gop'.recv] \o <<gop'.arg>>
          /\ MostRecentCall(gstate'[gop'.ret]) = gop'.arg

\* C30: every push is a persistent append, and most_recent_call of the
\* empty GuardState is None.
C30_PersistentAppend ==
    /\ [](gpc = "push" => MostRecentCall(gstate[1]) = 0)
    /\ [][gpc = "push" => PushStep]_vars

\* A GuardState of two histories has been built from one of one history,
\* which still has one, and a GuardHistory of two logs from one of one log.
C30_Witness ==
    /\ gpc = "push"
    /\ \E s \in DOMAIN gstate, t \in DOMAIN gstate :
          /\ Len(gstate[s]) = 1
          /\ Len(gstate[t]) = 2
          /\ gstate[t][1] = gstate[s][1]
          /\ MostRecentCall(gstate[t]) # MostRecentCall(gstate[s])
    /\ \E h \in DOMAIN ghist : Len(ghist[h]) = 2

TypeOK ==
    /\ pc \in {"idle", "args", "run", "iter", "split", "filter", "join", "return", "done", "error"}
    /\ proc \in {"line6", "line7", "line9", "main", "serving", "crashed"}
    /\ served \in 0..MaxRequests
    /\ raw \in Texts
    /\ Len(output) <= MaxFrags

====
